---- MODULE Spec2Model ----
(***************************************************************************)
(* Model of src/analysis.py: the differential-uplift pipeline for the two  *)
(* bottom-pressure recorders MJ03E and MJ03F.                              *)
(*                                                                         *)
(* Conventions of the model                                                *)
(*  - A file name is a sequence of one-character strings; names are        *)
(*    ordered as Python orders str (by code point).  All paths handed to   *)
(*    filter_files_by_time_range come from one directory's glob, so the    *)
(*    order of the Path objects is the order of their names.               *)
(*  - A pandas Series is a sequence of rows [t, v, na]: t the index label, *)
(*    v the value, na = TRUE for a missing value (NaN); v = 0 when na.     *)
(*  - Values are exact integers in a scaled unit (reals, not IEEE floats). *)
(*  - Time is scaled: an hour holds TicksPerHour sample instants and a day *)
(*    HoursPerDay hours; t counts hours (hourly series) or days (daily).   *)
(***************************************************************************)
EXTENDS Integers, Sequences, FiniteSets, TLC

VARIABLES
    \* filter_files_by_time_range
    nc_files, filtered, filtered_again, sel_pc,
    \* remove_spikes: the objects it touches, its arguments, what it returns
    sp_heap, sp_window, sp_threshold, sp_ret, sp_given, sp_pc,
    \* load_station: the number of selected files, the loop index, the chunks
    \* appended so far, the series being built, where the call is, the exception
    \* that ended it, whether a sample outside the window has been read, and
    \* the samples the window selection has kept so far (file, instant, pressure)
    ld_n, ld_i, hourly_chunks, result, ld_pc, ld_error, ld_outside, ld_samples,
    \* compute_differential: its two arguments and the frames it returns
    depth_e, depth_f, hourly_df, daily_df, df_pc,
    \* plot_differential: the daily differential it is given, and its locals
    uplift_daily, threshold_2015, uplift_referenced, low_2015_ref,
    deflation_magnitude, current_value, th_pc,
    \* main: where the run is, and the two Parquet files export_parquet writes
    main_pc, hourly_parquet, daily_parquet

selVars == <<nc_files, filtered, filtered_again, sel_pc>>
spVars == <<sp_heap, sp_window, sp_threshold, sp_ret, sp_given, sp_pc>>
ldVars == <<ld_n, ld_i, hourly_chunks, result, ld_pc, ld_error, ld_outside, ld_samples>>
dfVars == <<depth_e, depth_f, hourly_df, daily_df, df_pc>>
thVars == <<uplift_daily, threshold_2015, uplift_referenced, low_2015_ref,
            deflation_magnitude, current_value, th_pc>>
mainVars == <<main_pc, hourly_parquet, daily_parquet>>
vars == <<selVars, spVars, ldVars, dfVars, thVars, mainVars>>

-----------------------------------------------------------------------------
(* Generic helpers *)

Range(s) == {s[i] : i \in 1..Len(s)}

RECURSIVE SeqsUpTo(_, _)
SeqsUpTo(S, n) ==
    IF n = 0 THEN {<<>>}
    ELSE LET shorter == SeqsUpTo(S, n - 1)
         IN  shorter \cup {Append(s, x) : s \in {q \in shorter : Len(q) = n - 1}, x \in S}

Abs(x) == IF x < 0 THEN -x ELSE x

-----------------------------------------------------------------------------
(* File names, as characters *)

\* The characters used, in code-point order ('-' < '.' < digits < 'T' < '_' < letters).
Alphabet == <<"-", ".", "0", "1", "2", "3", "4", "5", "6", "7", "8", "9",
              "T", "_", "c", "n", "p", "s">>

Ord(c) == CHOOSE i \in 1..Len(Alphabet) : Alphabet[i] = c

DigitChars == <<"0", "1", "2", "3", "4", "5", "6", "7", "8", "9">>

IsDigit(c) == \E i \in 1..Len(DigitChars) : DigitChars[i] = c

DigitVal(c) == (CHOOSE i \in 1..Len(DigitChars) : DigitChars[i] = c) - 1

\* Python's str ordering: lexicographic by code point, a proper prefix first.
RECURSIVE StrLess(_, _)
StrLess(a, b) ==
    IF b = <<>> THEN FALSE
    ELSE IF a = <<>> THEN TRUE
    ELSE IF Ord(Head(a)) # Ord(Head(b)) THEN Ord(Head(a)) < Ord(Head(b))
    ELSE StrLess(Tail(a), Tail(b))

\* "_15s_" in f.name
TagChars == <<"_", "1", "5", "s", "_">>

HasAt(name, i, lit) ==
    /\ i + Len(lit) - 1 <= Len(name)
    /\ \A k \in 1..Len(lit) : name[i + k - 1] = lit[k]

Contains(name, lit) == \E i \in 1..Len(name) : HasAt(name, i, lit)

DigitsAt(name, i, n) ==
    /\ i + n - 1 <= Len(name)
    /\ \A k \in 0..(n - 1) : IsDigit(name[i + k])

\* int(match.group(k)) of a run of n digits starting at i
RECURSIVE IntAt(_, _, _)
IntAt(name, i, n) ==
    IF n = 0 THEN 0
    ELSE 10 * IntAt(name, i, n - 1) + DigitVal(name[i + n - 1])

TIME_START_YEAR == 2015
TIME_END_YEAR == 2026

\* re.compile(r"_15s_(\d{4})\d{4}T\d{6}-(\d{4})\d{4}T") matched at position i
PatternAt(name, i) ==
    /\ HasAt(name, i, TagChars)
    /\ DigitsAt(name, i + 5, 4)
    /\ DigitsAt(name, i + 9, 4)
    /\ HasAt(name, i + 13, <<"T">>)
    /\ DigitsAt(name, i + 14, 6)
    /\ HasAt(name, i + 20, <<"-">>)
    /\ DigitsAt(name, i + 21, 4)
    /\ DigitsAt(name, i + 25, 4)
    /\ HasAt(name, i + 29, <<"T">>)

\* pattern.search(f.name): the leftmost match, or 0 for None
PatternSearch(name) ==
    IF \E i \in 1..Len(name) : PatternAt(name, i)
    THEN CHOOSE i \in 1..Len(name) :
            PatternAt(name, i) /\ \A j \in 1..(i - 1) : ~PatternAt(name, j)
    ELSE 0

\* A variant with strict comparisons.
YearOverlapStrict(start_year, end_year) ==
    start_year < TIME_END_YEAR /\ end_year > TIME_START_YEAR

\* if start_year <= TIME_END_YEAR and end_year >= TIME_START_YEAR
YearOverlap(start_year, end_year) ==
    start_year <= TIME_END_YEAR /\ end_year >= TIME_START_YEAR

\* the body of the for loop: does f reach filtered.append(f)?
KeepsFile(name) ==
    /\ Contains(name, TagChars)
    /\ LET m == PatternSearch(name)
       IN  /\ m # 0
           /\ YearOverlap(IntAt(name, m + 5, 4), IntAt(name, m + 21, 4))

RECURSIVE SelectKept(_)
SelectKept(files) ==
    IF files = <<>> THEN <<>>
    ELSE IF KeepsFile(Head(files)) THEN <<Head(files)>> \o SelectKept(Tail(files))
    ELSE SelectKept(Tail(files))

\* sorted(): insert x after the last element that is not greater (stable)
RECURSIVE InsertSorted(_, _)
InsertSorted(s, x) ==
    IF s = <<>> THEN <<x>>
    ELSE IF StrLess(x, Head(s)) THEN <<x>> \o s
    ELSE <<Head(s)>> \o InsertSorted(Tail(s), x)

RECURSIVE Sorted(_)
Sorted(s) ==
    IF s = <<>> THEN <<>>
    ELSE InsertSorted(Sorted(SubSeq(s, 1, Len(s) - 1)), s[Len(s)])

filter_files_by_time_range(files) == Sorted(SelectKept(files))

-----------------------------------------------------------------------------
(* pandas Series and remove_spikes *)

Row(t, v) == [t |-> t, v |-> v, na |-> FALSE]

NaRow(t) == [t |-> t, v |-> 0, na |-> TRUE]

Index(series) == [i \in 1..Len(series) |-> series[i].t]

RECURSIVE InsertInt(_, _)
InsertInt(s, x) ==
    IF s = <<>> THEN <<x>>
    ELSE IF x < Head(s) THEN <<x>> \o s
    ELSE <<Head(s)>> \o InsertInt(Tail(s), x)

RECURSIVE SortInts(_)
SortInts(s) == IF s = <<>> THEN <<>> ELSE InsertInt(SortInts(Tail(s)), Head(s))

\* Twice the median of a non-empty sequence of integers (the median of an even
\* number of values is the mean of the two middle ones).
Median2(vals) ==
    LET srt == SortInts(vals)
        n   == Len(srt)
    IN  IF n % 2 = 1 THEN 2 * srt[(n + 1) \div 2]
        ELSE srt[n \div 2] + srt[n \div 2 + 1]

\* rolling(window=w, center=True): the positions of the window labelled i in a
\* series of n rows (offset (w - 1) // 2, clipped at both ends).
WindowOf(i, w, n) ==
    LET offset == (w - 1) \div 2
        lo == i + offset - w + 1
        hi == i + offset
    IN  (IF lo < 1 THEN 1 ELSE lo)..(IF hi > n THEN n ELSE hi)

\* The non-missing values of rows (a sequence of [v, na]) at the positions P.
RECURSIVE ValuesAt(_, _)
ValuesAt(rows, P) ==
    IF P = {} THEN <<>>
    ELSE LET i == CHOOSE k \in P : \A j \in P : k <= j
         IN  (IF rows[i].na THEN <<>> ELSE <<rows[i].v>>) \o ValuesAt(rows, P \ {i})

\* .rolling(window, center=True, min_periods=1).median(), in doubled units:
\* missing only where the window holds no value at all.
RollingMedian2(rows, w) ==
    [i \in 1..Len(rows) |->
        LET vals == ValuesAt(rows, WindowOf(i, w, Len(rows)))
        IN  IF vals = <<>> THEN [v |-> 0, na |-> TRUE]
            ELSE [v |-> Median2(vals), na |-> FALSE]]

\* deviation = (cleaned - rolling_median).abs(), in halves
Deviation2(rows, w) ==
    LET med == RollingMedian2(rows, w)
    IN  [i \in 1..Len(rows) |->
            IF rows[i].na \/ med[i].na THEN [v |-> 0, na |-> TRUE]
            ELSE [v |-> Abs(2 * rows[i].v - med[i].v), na |-> FALSE]]

\* rolling_mad = deviation.rolling(...).median(), in quarters
RollingMad4(rows, w) == RollingMedian2(Deviation2(rows, w), w)

\* 1.4826 = MAD_SCALE_NUM / MAD_SCALE_DEN
MAD_SCALE_NUM == 14826
MAD_SCALE_DEN == 10000

\* A variant with >= in place of >.
IsSpikeGeq(dev2, mad4, thr10) ==
    /\ ~dev2.na /\ ~mad4.na
    /\ 2 * dev2.v * 10 * MAD_SCALE_DEN >= thr10 * MAD_SCALE_NUM * mad4.v

\* is_spike = deviation > (threshold * scaled_mad); thr10 is the threshold in
\* tenths.  A comparison with a missing value is False.
IsSpike(dev2, mad4, thr10) ==
    /\ ~dev2.na /\ ~mad4.na
    /\ 2 * dev2.v * 10 * MAD_SCALE_DEN > thr10 * MAD_SCALE_NUM * mad4.v

SpikeFlags(series, w, thr10) ==
    LET dev == Deviation2(series, w)
        mad == RollingMad4(series, w)
    IN  [i \in 1..Len(series) |-> IsSpike(dev[i], mad[i], thr10)]

\* A variant that drops the flagged rows (cleaned = cleaned[~is_spike]).
RECURSIVE MaskDrop(_, _)
MaskDrop(series, flags) ==
    IF series = <<>> THEN <<>>
    ELSE (IF flags[1] THEN <<>> ELSE <<Head(series)>>)
         \o MaskDrop(Tail(series), [i \in 1..(Len(series) - 1) |-> flags[i + 1]])

\* cleaned[is_spike] = pd.NA
MaskAssign(series, flags) ==
    [i \in 1..Len(series) |-> IF flags[i] THEN NaRow(series[i].t) ELSE series[i]]

\* The value of the series remove_spikes returns.
RemoveSpikes(series, w, thr10) == MaskAssign(series, SpikeFlags(series, w, thr10))

\* A variant without the copy (cleaned = series).
SeriesAlias(obj) == obj

\* series.copy(): a new object, here named "cleaned"
SeriesCopy(obj) == "cleaned"

-----------------------------------------------------------------------------
(* remove_spikes on a series object *)

MaxLen == 4
MaxWin == 5
WINDOW_HOURS == 24
STATION_THRESHOLD == 50
DIFFERENTIAL_THRESHOLD == 35

SpikeValues == {0, 1, 4}

SpikeRows(t) == {Row(t, v) : v \in SpikeValues} \cup {NaRow(t)}

SpikeSeries == UNION {[1..n -> UNION {SpikeRows(t) : t \in 1..n}] : n \in 0..MaxLen}

SpikeInputs == {s \in SpikeSeries : \A i \in 1..Len(s) : s[i].t = i}

Windows == (1..MaxWin) \cup {WINDOW_HOURS}

Thresholds == {-10, 0, DIFFERENTIAL_THRESHOLD, STATION_THRESHOLD}

SpInit ==
    /\ \E s \in SpikeInputs :
          /\ sp_heap = [series |-> s, cleaned |-> <<>>]
          /\ sp_given = s
    /\ sp_window \in Windows
    /\ sp_threshold \in Thresholds
    /\ sp_ret = "none"
    /\ sp_pc = "call"

SpIdle ==
    /\ sp_heap = [series |-> <<>>, cleaned |-> <<>>]
    /\ sp_given = <<>>
    /\ sp_window = 0
    /\ sp_threshold = 0
    /\ sp_ret = "none"
    /\ sp_pc = "idle"

\* def remove_spikes(series, window_hours, threshold)
CallRemoveSpikes ==
    /\ sp_pc = "call"
    /\ LET cleaned == SeriesCopy("series")
           copied == [sp_heap EXCEPT ![cleaned] = sp_heap["series"]]
           is_spike == SpikeFlags(copied[cleaned], sp_window, sp_threshold)
       IN  /\ sp_heap' = IF \E i \in 1..Len(is_spike) : is_spike[i]
                         THEN [copied EXCEPT ![cleaned] = MaskAssign(copied[cleaned], is_spike)]
                         ELSE copied
           /\ sp_ret' = cleaned
    /\ sp_pc' = "returned"
    /\ UNCHANGED <<sp_window, sp_threshold, sp_given, selVars, ldVars, dfVars, thVars, mainVars>>

SpNext == CallRemoveSpikes

-----------------------------------------------------------------------------
(* load_station *)

\* Bounds of the time scale: sample instants per hour, hours per day.
TicksPerHour == 2
HoursPerDay == 2
\* The most files a station's list holds.
MaxStationFiles == 2

\* TIME_START = "2015-01-01" and TIME_END = "2026-01-16", as day numbers of the
\* scaled calendar (day 0 lies before the window, day TIME_END + 1 after it).
TIME_START == 1
TIME_END == 2

TicksPerDay == HoursPerDay * TicksPerHour

\* The first instant of a calendar day, and the hour an instant floors to.
DayStart(day) == day * TicksPerDay

HourOf(tick) == tick \div TicksPerHour

\* A variant with no right end (slice(TIME_START, None)).
InWindowFromStart(tick) == DayStart(TIME_START) <= tick

\* ds.sel(time=slice(TIME_START, TIME_END)): a date string as the right end of a
\* label slice stands for the whole of that day.
InWindow(tick) == DayStart(TIME_START) <= tick /\ tick < DayStart(TIME_END + 1)

\* Bottom pressure in tenths of a psia; depth in millimetres:
\* (pressure_psia - 14.7) * 0.670 m = 67 * (tenths - 147) mm.
pressure_to_depth(tenths) == 67 * (tenths - 147)

Pressures == {150, 151}

\* The instants a file may hold a sample at: the last one before the window, two
\* in its first hour, the first of the TIME_END day, the first after the window.
SampleTimes == {DayStart(TIME_START) - 1, DayStart(TIME_START), DayStart(TIME_START) + 1,
                DayStart(TIME_END), DayStart(TIME_END + 1)}

\* What a decoded file holds: at each instant a pressure, or 0 for no sample.
FileContents == {c \in [SampleTimes -> Pressures \cup {0}] : \E t \in SampleTimes : c[t] # 0}

RECURSIVE Factorial(_)
Factorial(n) == IF n <= 1 THEN 1 ELSE n * Factorial(n - 1)

\* Hourly values are kept in units of 1 / HourScale mm, so that the mean of up to
\* TicksPerHour samples is a whole number.
HourScale == Factorial(TicksPerHour)

RECURSIVE SumOver(_, _)
SumOver(f, S) ==
    IF S = {} THEN 0
    ELSE LET x == CHOOSE y \in S : TRUE IN f[x] + SumOver(f, S \ {x})

MinOf(S) == CHOOSE x \in S : \A y \in S : x <= y

MaxOf(S) == CHOOSE x \in S : \A y \in S : x >= y

\* The instants of content c that the window selection keeps.
Retained(c) == {t \in SampleTimes : c[t] # 0 /\ InWindow(t)}

\* series.resample("1h").mean(): one row per hour from the first sample's hour
\* to the last sample's, missing where the hour holds no sample.
HourlyMean(c, kept) ==
    LET depth == [t \in kept |-> pressure_to_depth(c[t])]
        first == HourOf(MinOf(kept))
        last  == HourOf(MaxOf(kept))
    IN  [k \in 1..(last - first + 1) |->
            LET h == first + k - 1
                inHour == {t \in kept : HourOf(t) = h}
            IN  IF inHour = {} THEN NaRow(h)
                ELSE Row(h, (HourScale * SumOver(depth, inHour)) \div Cardinality(inHour))]

RECURSIVE Concat(_)
Concat(chunks) == IF chunks = <<>> THEN <<>> ELSE Head(chunks) \o Concat(Tail(chunks))

IsMonotonic(rows) == \A i \in 1..(Len(rows) - 1) : rows[i].t <= rows[i + 1].t

\* The positions of rows whose label is h, in their order in rows.
PositionsOf(rows, h) == {i \in 1..Len(rows) : rows[i].t = h}

RECURSIVE InOrder(_, _)
InOrder(rows, P) ==
    IF P = {} THEN <<>>
    ELSE LET i == MinOf(P) IN <<rows[i]>> \o InOrder(rows, P \ {i})

\* The arrangements an unstable sort by label may leave rows in.  Rows with the
\* same label form a group; any row of the group may come first.  (The order of
\* the others is left as it was: drop-duplicates discards them.)
RECURSIVE Arrangements(_, _)
Arrangements(rows, labels) ==
    IF labels = {} THEN {<<>>}
    ELSE LET h == MinOf(labels)
             P == PositionsOf(rows, h)
         IN  {<<rows[lead]>> \o InOrder(rows, P \ {lead}) \o rest :
                 lead \in P, rest \in Arrangements(rows, labels \ {h})}

\* result.sort_index(): kind defaults to "quicksort", which is not stable; an
\* index that is already non-decreasing is returned as it is.
SortIndex(rows) ==
    IF IsMonotonic(rows) THEN {rows}
    ELSE Arrangements(rows, {rows[i].t : i \in 1..Len(rows)})

\* A variant that keeps every row.
KeepAll(rows) == rows

\* result[~result.index.duplicated(keep="first")]
RECURSIVE DropDuplicated(_)
DropDuplicated(rows) ==
    IF rows = <<>> THEN <<>>
    ELSE LET init == SubSeq(rows, 1, Len(rows) - 1)
             last == rows[Len(rows)]
         IN  IF \E i \in 1..Len(init) : init[i].t = last.t
             THEN DropDuplicated(init)
             ELSE Append(DropDuplicated(init), last)

\* nc_files = filter_files_by_time_range(sorted(data_path.glob("*.nc"))): the
\* loop only needs how many files it holds; what each file decodes to is met
\* when the loop opens it.
LdInit ==
    /\ ld_n \in 0..MaxStationFiles
    /\ ld_i = 0
    /\ hourly_chunks = <<>>
    /\ result = <<>>
    /\ ld_pc = "loop"
    /\ ld_error = "none"
    /\ ld_outside = FALSE
    /\ ld_samples = {}

LdIdle ==
    /\ ld_n = 0
    /\ ld_i = 0
    /\ hourly_chunks = <<>>
    /\ result = <<>>
    /\ ld_pc = "idle"
    /\ ld_error = "none"
    /\ ld_outside = FALSE
    /\ ld_samples = {}

\* xr.open_dataset(f) raises: nothing in load_station catches it.
OpenRaises ==
    /\ ld_pc = "loop" /\ ld_i < ld_n
    /\ ld_pc' = "raised"
    /\ ld_error' = "decode"
    /\ UNCHANGED <<ld_n, ld_i, hourly_chunks, result, ld_outside, ld_samples, selVars, spVars, dfVars, thVars, mainVars>>

\* One pass of the loop body over a file that decodes to content c.
ProcessFile ==
    /\ ld_pc = "loop" /\ ld_i < ld_n
    /\ \E c \in FileContents :
          LET kept == Retained(c)
          IN  /\ hourly_chunks' = IF kept = {} THEN hourly_chunks
                                  ELSE Append(hourly_chunks, HourlyMean(c, kept))
              /\ ld_outside' = (ld_outside \/ \E t \in SampleTimes : c[t] # 0 /\ ~InWindow(t))
              /\ ld_samples' = ld_samples \cup
                    {[file |-> ld_i + 1, tick |-> t, pressure |-> c[t]] : t \in kept}
    /\ ld_i' = ld_i + 1
    /\ UNCHANGED <<ld_n, result, ld_pc, ld_error, selVars, spVars, dfVars, thVars, mainVars>>

\* pd.concat(hourly_chunks) raises ValueError on an empty list.
ConcatRaises ==
    /\ ld_pc = "loop" /\ ld_i = ld_n
    /\ hourly_chunks = <<>>
    /\ ld_pc' = "raised"
    /\ ld_error' = "concat"
    /\ UNCHANGED <<ld_n, ld_i, hourly_chunks, result, ld_outside, ld_samples, selVars, spVars, dfVars, thVars, mainVars>>

\* result = pd.concat(hourly_chunks).sort_index()
ConcatSort ==
    /\ ld_pc = "loop" /\ ld_i = ld_n
    /\ hourly_chunks # <<>>
    /\ result' \in SortIndex(Concat(hourly_chunks))
    /\ ld_pc' = "sorted"
    /\ UNCHANGED <<ld_n, ld_i, hourly_chunks, ld_error, ld_outside, ld_samples, selVars, spVars, dfVars, thVars, mainVars>>

\* result = result[~result.index.duplicated(keep="first")]
DropDuplicates ==
    /\ ld_pc = "sorted"
    /\ result' = DropDuplicated(result)
    /\ ld_pc' = "deduplicated"
    /\ UNCHANGED <<ld_n, ld_i, hourly_chunks, ld_error, ld_outside, ld_samples, selVars, spVars, dfVars, thVars, mainVars>>

\* result = remove_spikes(result, window_hours=24, threshold=5.0); return result
SpikesAndReturn ==
    /\ ld_pc = "deduplicated"
    /\ result' = RemoveSpikes(result, WINDOW_HOURS, STATION_THRESHOLD)
    /\ ld_pc' = "returned"
    /\ UNCHANGED <<ld_n, ld_i, hourly_chunks, ld_error, ld_outside, ld_samples, selVars, spVars, dfVars, thVars, mainVars>>

LdNext ==
    \/ OpenRaises
    \/ ProcessFile
    \/ ConcatRaises
    \/ ConcatSort
    \/ DropDuplicates
    \/ SpikesAndReturn

-----------------------------------------------------------------------------
(* compute_differential *)

Cell(v) == [v |-> v, na |-> FALSE]

NaCell == [v |-> 0, na |-> TRUE]

\* The value a series holds at label t; missing when it has no such label.
CellAt(series, t) ==
    IF \E i \in 1..Len(series) : series[i].t = t
    THEN LET r == series[CHOOSE i \in 1..Len(series) : series[i].t = t]
         IN  [v |-> r.v, na |-> r.na]
    ELSE NaCell

RECURSIVE Ascending(_)
Ascending(S) == IF S = {} THEN <<>> ELSE <<MinOf(S)>> \o Ascending(S \ {MinOf(S)})

\* pd.DataFrame({"depth_mj03e_m": depth_e, "depth_mj03f_m": depth_f}): the rows
\* are the union of the two indexes, in order.
OuterFrame(e, f) ==
    LET labels == Ascending({e[i].t : i \in 1..Len(e)} \cup {f[i].t : i \in 1..Len(f)})
    IN  [k \in 1..Len(labels) |->
            [t |-> labels[k],
             depth_mj03e_m |-> CellAt(e, labels[k]),
             depth_mj03f_m |-> CellAt(f, labels[k])]]

AllPresent(r) == ~r.depth_mj03e_m.na /\ ~r.depth_mj03f_m.na

\* A variant that drops only the rows missing in every column (how="all").
AnyPresent(r) == ~r.depth_mj03e_m.na \/ ~r.depth_mj03f_m.na

DropNaAll(frame) == InOrder(frame, {i \in 1..Len(frame) : AnyPresent(frame[i])})

\* .dropna(): a row with a missing value in any column goes
DropNa(frame) == InOrder(frame, {i \in 1..Len(frame) : AllPresent(frame[i])})

\* combined["differential_m"] = -(combined["depth_mj03f_m"] - combined["depth_mj03e_m"])
Differential(r) == -(r.depth_mj03f_m.v - r.depth_mj03e_m.v)

\* The differential column as a series, and that series through remove_spikes.
CleanedDifferential(frame) ==
    RemoveSpikes([k \in 1..Len(frame) |-> Row(frame[k].t, Differential(frame[k]))],
                 WINDOW_HOURS, DIFFERENTIAL_THRESHOLD)

DayOf(hour) == hour \div HoursPerDay

\* Daily values are kept in units of 1 / DayScale, so that the mean of up to
\* HoursPerDay hourly values is a whole number.
DayScale == Factorial(HoursPerDay)

RECURSIVE SumCells(_)
SumCells(cells) == IF cells = <<>> THEN 0 ELSE Head(cells).v + SumCells(Tail(cells))

RECURSIVE Present(_)
Present(cells) ==
    IF cells = <<>> THEN <<>>
    ELSE (IF Head(cells).na THEN <<>> ELSE <<Head(cells)>>) \o Present(Tail(cells))

\* A variant that counts a missing value as 0.
MeanZeroFilled(cells) ==
    IF Present(cells) = <<>> THEN NaCell
    ELSE Cell((DayScale * SumCells(cells)) \div Len(cells))

\* mean(): over the values that are not missing; missing when there is none
MeanSkipNa(cells) ==
    LET vals == Present(cells)
    IN  IF vals = <<>> THEN NaCell
        ELSE Cell((DayScale * SumCells(vals)) \div Len(vals))

InDay(frame, day) == InOrder(frame, {i \in 1..Len(frame) : DayOf(frame[i].t) = day})

\* combined.resample("1D").mean(): one row per day from the first row's day to
\* the last row's, every column averaged.
DailyMean(frame) ==
    IF frame = <<>> THEN <<>>
    ELSE LET first == DayOf(frame[1].t)
             last  == DayOf(frame[Len(frame)].t)
         IN  [k \in 1..(last - first + 1) |->
                 LET rows == InDay(frame, first + k - 1)
                 IN  [t |-> first + k - 1,
                      depth_mj03e_m |->
                          MeanSkipNa([i \in 1..Len(rows) |-> rows[i].depth_mj03e_m]),
                      depth_mj03f_m |->
                          MeanSkipNa([i \in 1..Len(rows) |-> rows[i].depth_mj03f_m]),
                      differential_m |->
                          MeanSkipNa([i \in 1..Len(rows) |-> rows[i].differential_m])]]

\* The hourly frame compute_differential returns.
Combined(e, f) ==
    LET joined == DropNa(OuterFrame(e, f))
        cleaned == CleanedDifferential(joined)
    IN  [k \in 1..Len(joined) |->
            [t |-> joined[k].t,
             depth_mj03e_m |-> joined[k].depth_mj03e_m,
             depth_mj03f_m |-> joined[k].depth_mj03f_m,
             differential_m |-> [v |-> cleaned[k].v, na |-> cleaned[k].na]]]

\* The leading hours of the two station series; one more hour lies two days on.
DiffHours == 2

DiffTimes == (0..(DiffHours - 1)) \cup {(2 + DayOf(DiffHours - 1)) * HoursPerDay}

DepthsE == {12}
DepthsF == {10, 15}

\* The series over DiffTimes with any label absent, missing, or holding a depth.
StationSeries(depths) ==
    UNION {
      LET labels == Ascending(T)
      IN  {[k \in 1..Len(labels) |->
               [t |-> labels[k], v |-> c[labels[k]].v, na |-> c[labels[k]].na]] :
              c \in [T -> {Cell(d) : d \in depths} \cup {NaCell}]} :
      T \in SUBSET DiffTimes }

DfInit ==
    /\ depth_e \in StationSeries(DepthsE)
    /\ depth_f \in StationSeries(DepthsF)
    /\ hourly_df = <<>>
    /\ daily_df = <<>>
    /\ df_pc = "call"

DfIdle ==
    /\ depth_e = <<>>
    /\ depth_f = <<>>
    /\ hourly_df = <<>>
    /\ daily_df = <<>>
    /\ df_pc = "idle"

\* def compute_differential(depth_e, depth_f)
ComputeDifferential ==
    /\ df_pc = "call"
    /\ hourly_df' = Combined(depth_e, depth_f)
    /\ daily_df' = DailyMean(Combined(depth_e, depth_f))
    /\ df_pc' = "returned"
    /\ UNCHANGED <<depth_e, depth_f, selVars, spVars, ldVars, thVars, mainVars>>

DfNext == ComputeDifferential

-----------------------------------------------------------------------------
(* plot_differential: the threshold referencing *)

\* The pre-eruption window "2015-01-01":"2015-04-23" and the post-eruption
\* window "2015-04-24":"2015-06-01", as day numbers of the scaled calendar.
PRE_START == 1
PRE_END == 2
POST_START == 3
POST_END == 4

\* The last day a daily series may reach.
MaxDay == 5

\* series[first:last]: a label slice takes both ends in
LabelSlice(series, first, last) ==
    InOrder(series, {i \in 1..Len(series) : first <= series[i].t /\ series[i].t <= last})

PresentValues(series) == {series[i].v : i \in {j \in 1..Len(series) : ~series[j].na}}

\* .max() and .min() skip missing values and are missing when nothing is left
SeriesMax(series) ==
    IF PresentValues(series) = {} THEN NaCell ELSE Cell(MaxOf(PresentValues(series)))

SeriesMin(series) ==
    IF PresentValues(series) = {} THEN NaCell ELSE Cell(MinOf(PresentValues(series)))

\* uplift_daily - threshold_2015
MinusScalar(series, cell) ==
    [i \in 1..Len(series) |->
        IF series[i].na \/ cell.na THEN NaRow(series[i].t)
        ELSE Row(series[i].t, series[i].v - cell.v)]

\* A variant without the negation.
Unchanged(cell) == cell

\* -low_2015_ref
Negated(cell) == IF cell.na THEN NaCell ELSE Cell(-cell.v)

ThValues == {1, 2, 4}

\* A daily series: consecutive days, each holding a value or missing.
DailySeries ==
    UNION {
      {[k \in 1..(last - first + 1) |->
           [t |-> first + k - 1, v |-> c[first + k - 1].v, na |-> c[first + k - 1].na]] :
          c \in [first..last -> {Cell(x) : x \in ThValues} \cup {NaCell}]} :
      first \in 0..MaxDay, last \in 0..MaxDay }

ThInit ==
    /\ uplift_daily \in DailySeries
    /\ threshold_2015 = NaCell
    /\ uplift_referenced = <<>>
    /\ low_2015_ref = NaCell
    /\ deflation_magnitude = NaCell
    /\ current_value = NaCell
    /\ th_pc = "call"

ThIdle ==
    /\ uplift_daily = <<>>
    /\ threshold_2015 = NaCell
    /\ uplift_referenced = <<>>
    /\ low_2015_ref = NaCell
    /\ deflation_magnitude = NaCell
    /\ current_value = NaCell
    /\ th_pc = "idle"

\* The threshold, the referenced series, the trough and the magnitude of a
\* daily differential.
ReferencingOf(series) ==
    /\ threshold_2015' = SeriesMax(LabelSlice(series, PRE_START, PRE_END))
    /\ uplift_referenced' = MinusScalar(series, threshold_2015')
    /\ low_2015_ref' = SeriesMin(LabelSlice(uplift_referenced', POST_START, POST_END))
    /\ deflation_magnitude' = Negated(low_2015_ref')

Referencing == ReferencingOf(uplift_daily)

\* plot_differential up to its report
PlotDifferential ==
    /\ th_pc = "call"
    /\ uplift_daily # <<>>
    /\ Referencing
    /\ current_value' = [v |-> uplift_referenced'[Len(uplift_referenced')].v,
                         na |-> uplift_referenced'[Len(uplift_referenced')].na]
    /\ th_pc' = "reported"
    /\ UNCHANGED <<uplift_daily, selVars, spVars, ldVars, dfVars, mainVars>>

\* uplift_referenced.iloc[-1] raises IndexError on an empty series
PlotRaises ==
    /\ th_pc = "call"
    /\ uplift_daily = <<>>
    /\ Referencing
    /\ th_pc' = "raised"
    /\ UNCHANGED <<uplift_daily, current_value, selVars, spVars, ldVars, dfVars, mainVars>>

ThNext == PlotDifferential \/ PlotRaises

-----------------------------------------------------------------------------
(* main: load, difference, export, plot *)

\* daily_df["differential_m"]
DifferentialColumn(frame) ==
    [k \in 1..Len(frame) |->
        [t |-> frame[k].t, v |-> frame[k].differential_m.v,
         na |-> frame[k].differential_m.na]]

\* A variant in which the subtraction writes into the frame's column.
FrameRebasedInPlace(frame, referenced) ==
    [k \in 1..Len(frame) |->
        [frame[k] EXCEPT !.differential_m =
                            [v |-> referenced[k].v, na |-> referenced[k].na]]]

\* The caller's daily frame once plot_differential has referenced its column:
\* uplift_daily - threshold_2015 builds a new series; nothing is assigned back.
FrameAfterReferencing(frame, referenced) == frame

\* The series load_station can return: it raises rather than return an empty one.
LoadedSeries(depths) == StationSeries(depths) \ {<<>>}

MainInit ==
    /\ main_pc = "start"
    /\ hourly_parquet = <<>>
    /\ daily_parquet = <<>>

MainIdle ==
    /\ main_pc = "idle"
    /\ hourly_parquet = <<>>
    /\ daily_parquet = <<>>

\* depth_e = load_station(MJ03E_PATH, "MJ03E")
MainLoadE ==
    /\ main_pc = "start"
    /\ depth_e' \in LoadedSeries(DepthsE)
    /\ main_pc' = "loaded_e"
    /\ UNCHANGED <<depth_f, hourly_df, daily_df, df_pc, hourly_parquet, daily_parquet,
                   selVars, spVars, ldVars, thVars>>

\* depth_f = load_station(MJ03F_PATH, "MJ03F")
MainLoadF ==
    /\ main_pc = "loaded_e"
    /\ depth_f' \in LoadedSeries(DepthsF)
    /\ main_pc' = "loaded_f"
    /\ UNCHANGED <<depth_e, hourly_df, daily_df, df_pc, hourly_parquet, daily_parquet,
                   selVars, spVars, ldVars, thVars>>

\* Either load_station call raises (pd.concat of no chunks, an unreadable
\* file): main ends.
MainLoadRaises ==
    /\ main_pc \in {"start", "loaded_e"}
    /\ main_pc' = "raised"
    /\ UNCHANGED <<hourly_parquet, daily_parquet, selVars, spVars, ldVars, dfVars, thVars>>

\* hourly_df, daily_df = compute_differential(depth_e, depth_f)
MainComputeDifferential ==
    /\ main_pc = "loaded_f"
    /\ hourly_df' = Combined(depth_e, depth_f)
    /\ daily_df' = DailyMean(Combined(depth_e, depth_f))
    /\ df_pc' = "returned"
    /\ main_pc' = "computed"
    /\ UNCHANGED <<depth_e, depth_f, hourly_parquet, daily_parquet,
                   selVars, spVars, ldVars, thVars>>

\* export_parquet(hourly_df, daily_df)
MainExportParquet ==
    /\ main_pc = "computed"
    /\ hourly_parquet' = hourly_df
    /\ daily_parquet' = daily_df
    /\ main_pc' = "exported"
    /\ UNCHANGED <<selVars, spVars, ldVars, dfVars, thVars>>

\* plot_depth(depth_e, ...): draws the series, changes none of the data
MainPlotDepthE ==
    /\ main_pc = "exported"
    /\ main_pc' = "plotted_e"
    /\ UNCHANGED <<hourly_parquet, daily_parquet, selVars, spVars, ldVars, dfVars, thVars>>

\* plot_depth(depth_f, ...)
MainPlotDepthF ==
    /\ main_pc = "plotted_e"
    /\ main_pc' = "plotted_f"
    /\ UNCHANGED <<hourly_parquet, daily_parquet, selVars, spVars, ldVars, dfVars, thVars>>

\* plot_differential(daily_df, ...)
MainPlotDifferential ==
    /\ main_pc = "plotted_f"
    /\ daily_df # <<>>
    /\ uplift_daily' = DifferentialColumn(daily_df)
    /\ ReferencingOf(uplift_daily')
    /\ current_value' = [v |-> uplift_referenced'[Len(uplift_referenced')].v,
                         na |-> uplift_referenced'[Len(uplift_referenced')].na]
    /\ th_pc' = "reported"
    /\ daily_df' = FrameAfterReferencing(daily_df, uplift_referenced')
    /\ main_pc' = "done"
    /\ UNCHANGED <<depth_e, depth_f, hourly_df, df_pc, hourly_parquet, daily_parquet,
                   selVars, spVars, ldVars>>

\* plot_differential on an empty daily frame: .iloc[-1] raises IndexError
MainPlotRaises ==
    /\ main_pc = "plotted_f"
    /\ daily_df = <<>>
    /\ uplift_daily' = DifferentialColumn(daily_df)
    /\ ReferencingOf(uplift_daily')
    /\ th_pc' = "raised"
    /\ daily_df' = FrameAfterReferencing(daily_df, uplift_referenced')
    /\ main_pc' = "raised"
    /\ UNCHANGED <<depth_e, depth_f, hourly_df, df_pc, current_value,
                   hourly_parquet, daily_parquet, selVars, spVars, ldVars>>

MainNext ==
    \/ MainLoadE
    \/ MainLoadF
    \/ MainLoadRaises
    \/ MainComputeDifferential
    \/ MainExportParquet
    \/ MainPlotDepthE
    \/ MainPlotDepthF
    \/ MainPlotDifferential
    \/ MainPlotRaises

-----------------------------------------------------------------------------
(* The names a directory may hold.  Each is built from a description       *)
(* (tag, shape of the coverage stamp, start year, end year); the model's   *)
(* selector sees only the characters.                                      *)

MaxFiles == 3

DigitChar(d) == DigitChars[d + 1]

Digits4(n) == <<DigitChar((n \div 1000) % 10), DigitChar((n \div 100) % 10),
                DigitChar((n \div 10) % 10), DigitChar(n % 10)>>

Stamp(y) == Digits4(y) \o <<"0", "1", "0", "1", "T", "0", "0", "0", "0", "0", "0">>

Coverage(shape, sy, ey) ==
    CASE shape = "full"   -> Stamp(sy) \o <<"-">> \o Stamp(ey)
      [] shape = "nodash" -> Stamp(sy) \o Stamp(ey)
      [] shape = "noT"    -> Digits4(sy) \o <<"0", "1", "0", "1", "-">> \o Stamp(ey)
      [] OTHER            -> <<>>

MkName(d) == <<"p">> \o d.tag \o Coverage(d.shape, d.sy, d.ey) \o <<".", "n", "c">>

Desc(tag, shape, sy, ey) == [tag |-> tag, shape |-> shape, sy |-> sy, ey |-> ey]

Tag1s == <<"_", "1", "s", "_">>

Descs == { Desc(TagChars, "full", 2014, 2014), Desc(TagChars, "full", 2014, 2015),
           Desc(TagChars, "full", 2015, 2026), Desc(TagChars, "full", 2026, 2027),
           Desc(TagChars, "full", 2027, 2027), Desc(Tag1s, "full", 2015, 2015),
           Desc(TagChars, "nodash", 2015, 2015), Desc(TagChars, "noT", 2015, 2016),
           Desc(<<"_">>, "full", 2015, 2016), Desc(TagChars, "none", 0, 0) }

FileNames == {MkName(d) : d \in Descs}

-----------------------------------------------------------------------------
(* filter_files_by_time_range, called twice on the same list *)

SelInit ==
    /\ nc_files \in SeqsUpTo(FileNames, MaxFiles)
    /\ filtered = <<>>
    /\ filtered_again = <<>>
    /\ sel_pc = "call"

SelIdle ==
    /\ nc_files = <<>>
    /\ filtered = <<>>
    /\ filtered_again = <<>>
    /\ sel_pc = "idle"

FilterFiles ==
    /\ sel_pc = "call"
    /\ filtered' = filter_files_by_time_range(nc_files)
    /\ sel_pc' = "returned"
    /\ UNCHANGED <<nc_files, filtered_again, spVars, ldVars, dfVars, thVars, mainVars>>

FilterFilesAgain ==
    /\ sel_pc = "returned"
    /\ filtered_again' = filter_files_by_time_range(nc_files)
    /\ sel_pc' = "returned_twice"
    /\ UNCHANGED <<nc_files, filtered, spVars, ldVars, dfVars, thVars, mainVars>>

SelNext == FilterFiles \/ FilterFilesAgain

-----------------------------------------------------------------------------
(* Specifications: one per stage, each run on inputs of its own *)

InitSelect == SelInit /\ SpIdle /\ LdIdle /\ DfIdle /\ ThIdle /\ MainIdle

SpecSelect == InitSelect /\ [][SelNext]_vars

InitSpike == SpInit /\ SelIdle /\ LdIdle /\ DfIdle /\ ThIdle /\ MainIdle

SpecSpike == InitSpike /\ [][SpNext]_vars

InitLoad == LdInit /\ SelIdle /\ SpIdle /\ DfIdle /\ ThIdle /\ MainIdle

SpecLoad == InitLoad /\ [][LdNext]_vars

InitDiff == DfInit /\ SelIdle /\ SpIdle /\ LdIdle /\ ThIdle /\ MainIdle

SpecDiff == InitDiff /\ [][DfNext]_vars

InitThreshold == ThInit /\ SelIdle /\ SpIdle /\ LdIdle /\ DfIdle /\ MainIdle

SpecThreshold == InitThreshold /\ [][ThNext]_vars

InitMain == MainInit /\ SelIdle /\ SpIdle /\ LdIdle /\ DfIdle /\ ThIdle

SpecMain == InitMain /\ [][MainNext]_vars

\* Any one stage, on any of its inputs, or the whole run.
Init == InitSelect \/ InitSpike \/ InitLoad \/ InitDiff \/ InitThreshold \/ InitMain

Next == SelNext \/ SpNext \/ LdNext \/ DfNext \/ ThNext \/ MainNext

Spec == Init /\ [][Next]_vars

-----------------------------------------------------------------------------
(* C1 *)

Count(s, x) == Cardinality({i \in 1..Len(s) : s[i] = x})

\* What a description says of its file: the 15 s tag, a full coverage stamp,
\* and years that overlap 2015..2026.
Described15s(d) == d.tag = <<"_", "1", "5", "s", "_">>

DescribedCoverage(d) == d.shape = "full"

DescribedOverlap(d) == d.sy <= 2026 /\ d.ey >= 2015

Expected(d) == Described15s(d) /\ DescribedCoverage(d) /\ DescribedOverlap(d)

\* C1: filter_files_by_time_range returns exactly the files with the _15s_ tag,
\* a parseable coverage stamp and start year <= 2026 and end year >= 2015 (each as
\* often as the input holds it), every other file is left out, the result is
\* ascending by file name, and a second call on the same list returns the same list.
C1_SelectorContract ==
    /\ sel_pc \in {"returned", "returned_twice"} =>
         /\ \A d \in Descs :
               Count(filtered, MkName(d)) =
                  IF Expected(d) THEN Count(nc_files, MkName(d)) ELSE 0
         /\ \A i \in 1..(Len(filtered) - 1) : ~StrLess(filtered[i + 1], filtered[i])
    /\ sel_pc = "returned_twice" => filtered_again = filtered

\* A three-file list given in descending name order, holding a file outside the
\* years, and two kept files that the call had to reorder.
C1_Witness ==
    /\ sel_pc = "returned_twice"
    /\ Len(nc_files) = 3
    /\ Len(filtered) = 2
    /\ StrLess(nc_files[3], nc_files[2]) /\ StrLess(nc_files[2], nc_files[1])
    /\ StrLess(filtered[1], filtered[2])
    /\ \E d \in Descs : /\ MkName(d) \in Range(nc_files)
                        /\ Described15s(d) /\ DescribedCoverage(d) /\ ~DescribedOverlap(d)

-----------------------------------------------------------------------------
(* C5, C6 *)

\* C5: remove_spikes returns a series with exactly the index of its input (same
\* length, same timestamps, same order); each row is either missing or holds its
\* input value, a row missing in the result and present in the input being a
\* flagged one; and the object passed in still holds the values it was called with.
C5_SameIndexInputKept ==
    sp_pc = "returned" =>
        LET out == sp_heap[sp_ret]
            flags == SpikeFlags(sp_given, sp_window, sp_threshold)
        IN  /\ Len(out) = Len(sp_given)
            /\ \A i \in 1..Len(sp_given) :
                  /\ out[i].t = sp_given[i].t
                  /\ flags[i] => out[i].na
                  /\ ~flags[i] => out[i] = sp_given[i]
            /\ sp_heap["series"] = sp_given

\* A call that flagged one row and left another row with its value.
C5_Witness ==
    /\ sp_pc = "returned"
    /\ Len(sp_given) >= 3
    /\ \E i, j \in 1..Len(sp_given) :
          /\ ~sp_given[i].na /\ sp_heap[sp_ret][i].na
          /\ ~sp_heap[sp_ret][j].na
    /\ sp_heap["series"] = sp_given
    /\ sp_heap["series"] # sp_heap[sp_ret]

NoneMissing(series) == \A i \in 1..Len(series) : ~series[i].na

IsConstant(series) ==
    /\ Len(series) >= 1
    /\ NoneMissing(series)
    /\ \A i \in 1..Len(series) : series[i].v = series[1].v

\* Row k differs from every other row, and all the other rows are equal.
IsolatedAt(series, k) ==
    /\ Len(series) >= 3
    /\ NoneMissing(series)
    /\ \A i, j \in (1..Len(series)) \ {k} : series[i].v = series[j].v
    /\ \A i \in (1..Len(series)) \ {k} : series[i].v # series[k].v

\* Every rolling window that holds row k holds at least three rows.
WindowsAroundHoldThree(n, w, k) ==
    \A j \in 1..n : k \in WindowOf(j, w, n) => Cardinality(WindowOf(j, w, n)) >= 3

Flagged(i) == ~sp_given[i].na /\ sp_heap[sp_ret][i].na

\* C6 as stated: an isolated differing value in an otherwise constant series is
\* flagged at every threshold >= 0, for every series length and window size.
C6_IsolatedAlwaysFlagged ==
    sp_pc = "returned" /\ sp_threshold >= 0 =>
        \A k \in 1..Len(sp_given) : IsolatedAt(sp_given, k) => Flagged(k)

\* C6 (amended): a constant series has no row flagged at any threshold; an
\* isolated differing value in an otherwise constant series is flagged at every
\* threshold >= 0 when every rolling window holding it holds at least three rows;
\* and wherever the local MAD is 0 a row is flagged iff its deviation from the
\* rolling median is not 0.
C6_SpikeBoundary ==
    sp_pc = "returned" =>
        /\ IsConstant(sp_given) => \A i \in 1..Len(sp_given) : ~Flagged(i)
        /\ sp_threshold >= 0 =>
              \A k \in 1..Len(sp_given) :
                 IsolatedAt(sp_given, k)
                 /\ WindowsAroundHoldThree(Len(sp_given), sp_window, k) => Flagged(k)
        /\ \A i \in 1..Len(sp_given) :
              LET dev == Deviation2(sp_given, sp_window)[i]
                  mad == RollingMad4(sp_given, sp_window)[i]
              IN  ~mad.na /\ mad.v = 0 => (Flagged(i) <=> (~dev.na /\ dev.v # 0))

\* An isolated value flagged at the station threshold in a series shorter than
\* the 24-row window.
C6_Witness ==
    /\ sp_pc = "returned"
    /\ sp_threshold = STATION_THRESHOLD
    /\ sp_window = WINDOW_HOURS
    /\ \E k \in 1..Len(sp_given) :
          /\ IsolatedAt(sp_given, k)
          /\ WindowsAroundHoldThree(Len(sp_given), sp_window, k)
          /\ Flagged(k)

-----------------------------------------------------------------------------
(* C2, C3, C4, C10 *)

\* C2: the series load_station returns has strictly increasing timestamps, so no
\* two rows share one.
C2_StrictlyIncreasing ==
    ld_pc = "returned" =>
        \A i \in 1..(Len(result) - 1) : result[i].t < result[i + 1].t

\* Two chunks held the same hour, out of order, and the call returned.
C2_Witness ==
    /\ ld_pc = "returned"
    /\ Len(hourly_chunks) = 2
    /\ ~IsMonotonic(Concat(hourly_chunks))
    /\ \E i \in 1..Len(hourly_chunks[1]), j \in 1..Len(hourly_chunks[2]) :
          hourly_chunks[1][i].t = hourly_chunks[2][j].t
    /\ Len(result) >= 2

\* The chunks (by file order) that hold a row for hour h.
ChunksWith(h) ==
    {k \in 1..Len(hourly_chunks) :
        \E i \in 1..Len(hourly_chunks[k]) : hourly_chunks[k][i].t = h}

RowFor(rows, h) == rows[CHOOSE i \in 1..Len(rows) : rows[i].t = h]

\* C3: when an hour appears in the hourly aggregates of more than one file, the
\* row kept after concatenate / sort / drop-duplicates is the earliest file's.
C3_FirstFileWins ==
    ld_pc = "deduplicated" =>
        \A i \in 1..Len(result) :
            LET h == result[i].t
            IN  Cardinality(ChunksWith(h)) > 1 =>
                   result[i] = RowFor(hourly_chunks[MinOf(ChunksWith(h))], h)

HourInRequestedWindow(h) ==
    TIME_START * HoursPerDay <= h /\ h < TIME_END * HoursPerDay

HourThroughEndDay(h) ==
    TIME_START * HoursPerDay <= h /\ h < (TIME_END + 1) * HoursPerDay

\* C4 as stated: every timestamp of the returned series lies in the half-open
\* window [TIME_START, TIME_END).
C4_WithinHalfOpenWindow ==
    ld_pc = "returned" => \A i \in 1..Len(result) : HourInRequestedWindow(result[i].t)

\* C4 (amended): every timestamp of the returned series lies between the start of
\* the TIME_START day and the end of the TIME_END day (that day included), also
\* when the files read held samples outside that range.
C4_WithinWindowThroughEndDay ==
    ld_pc = "returned" => \A i \in 1..Len(result) : HourThroughEndDay(result[i].t)

\* A file held samples outside the window, and the returned series has rows at
\* both ends of the window.
C4_Witness ==
    /\ ld_pc = "returned"
    /\ ld_outside
    /\ \E i, j \in 1..Len(result) :
          /\ result[i].t = TIME_START * HoursPerDay
          /\ result[j].t = TIME_END * HoursPerDay /\ ~result[j].na

\* C10: a file that fails to open or decode does not abort load_station.
C10_DecodeFailureSkipped == ld_pc = "raised" => ld_error # "decode"

-----------------------------------------------------------------------------
(* C7, C8 *)

PresentLabels(series) == {series[i].t : i \in {j \in 1..Len(series) : ~series[j].na}}

Labels(frame) == {frame[i].t : i \in 1..Len(frame)}

\* C7: the timestamps of the hourly frame are exactly those at which both station
\* series hold a value that is not missing, each once.
C7_InnerJoinOfPresent ==
    df_pc = "returned" =>
        /\ Labels(hourly_df) = PresentLabels(depth_e) \cap PresentLabels(depth_f)
        /\ Len(hourly_df) = Cardinality(Labels(hourly_df))

\* One station lacks a timestamp the other has, one holds a missing value where
\* the other holds a depth, and some timestamp survives.
C7_Witness ==
    /\ df_pc = "returned"
    /\ hourly_df # <<>>
    /\ \E t \in Labels(depth_f) : t \notin Labels(depth_e)
    /\ \E t \in PresentLabels(depth_e) : t \in Labels(depth_f) \ PresentLabels(depth_f)

\* The hourly rows of a day whose differential is not missing.
KeptHours(day) ==
    {i \in 1..Len(hourly_df) : DayOf(hourly_df[i].t) = day /\ ~hourly_df[i].differential_m.na}

KeptSum(day) == SumOver([i \in KeptHours(day) |-> hourly_df[i].differential_m.v], KeptHours(day))

\* C8: each day's differential is the mean of that day's hourly differentials
\* that are not missing (a flagged hour adds nothing to the sum and is not
\* counted), and is missing when the day has none.
C8_DailyMeanSkipsFlagged ==
    df_pc = "returned" =>
        \A k \in 1..Len(daily_df) :
            LET day == daily_df[k].t
                cell == daily_df[k].differential_m
            IN  IF KeptHours(day) = {} THEN cell.na
                ELSE /\ ~cell.na
                     /\ cell.v * Cardinality(KeptHours(day)) = DayScale * KeptSum(day)

\* A day with an hour flagged in the differential and another hour, not zero,
\* that makes up the day's mean.
C8_Witness ==
    /\ df_pc = "returned"
    /\ \E i, j \in 1..Len(hourly_df) :
          /\ DayOf(hourly_df[i].t) = DayOf(hourly_df[j].t)
          /\ hourly_df[i].differential_m.na
          /\ ~hourly_df[j].differential_m.na /\ hourly_df[j].differential_m.v # 0
          /\ \E k \in 1..Len(daily_df) :
                /\ daily_df[k].t = DayOf(hourly_df[j].t)
                /\ daily_df[k].differential_m.v = DayScale * hourly_df[j].differential_m.v

-----------------------------------------------------------------------------
(* C9 *)

RawPre == PresentValues(LabelSlice(uplift_daily, PRE_START, PRE_END))

RawPost == PresentValues(LabelSlice(uplift_daily, POST_START, POST_END))

-----------------------------------------------------------------------------
(* C11 *)

\* The retained samples, of every file read, whose instant floors to hour h.
SamplesOfHour(h) == {x \in ld_samples : HourOf(x.tick) = h}

DepthSum(S) == SumOver([x \in S |-> pressure_to_depth(x.pressure)], S)

\* C11: each value of the station's hourly series is the mean of all retained
\* samples whose instant floors to that hour, whichever files they came from.
C11_MeanOverAllFiles ==
    ld_pc = "returned" =>
        \A i \in 1..Len(result) :
            ~result[i].na =>
                result[i].v * Cardinality(SamplesOfHour(result[i].t))
                   = HourScale * DepthSum(SamplesOfHour(result[i].t))

-----------------------------------------------------------------------------
(* C12 *)

\* The points of main after export_parquet has returned.
AfterExport == {"exported", "plotted_e", "plotted_f", "done"}

Exported == main_pc \in AfterExport \/ (main_pc = "raised" /\ th_pc = "raised")

\* C12: the threshold referencing leaves the frames alone: once exported, the
\* Parquet files hold the frames compute_differential returned (un-rebased),
\* the frames in memory still equal them at every later point, after
\* plot_differential included, and no threshold is computed before the export.
C12_ExportedFramesUnrebased ==
    /\ Exported =>
          /\ hourly_parquet = Combined(depth_e, depth_f)
          /\ daily_parquet = DailyMean(Combined(depth_e, depth_f))
          /\ hourly_df = hourly_parquet
          /\ daily_df = daily_parquet
    /\ th_pc # "idle" => Exported

\* A finished run whose threshold is a non-zero value, so the referenced series
\* differs from the exported differential.
C12_Witness ==
    /\ main_pc = "done"
    /\ th_pc = "reported"
    /\ ~threshold_2015.na
    /\ threshold_2015.v # 0
    /\ uplift_referenced # DifferentialColumn(daily_parquet)
    /\ daily_df = daily_parquet
    /\ hourly_df = hourly_parquet

====
